---- MODULE Spec2Model ----
(***************************************************************************)
(* A model of darglint's lexical front end (src/darglint/lex.py):          *)
(*   lex(program)     - the character-stream tokenizer (a generator);      *)
(*   condense(tokens) - the merge / keyword-promotion pass.                *)
(* Strings are sequences of one-character strings.  Token objects live in  *)
(* a heap (condense mutates the objects it is handed).                     *)
(***************************************************************************)
EXTENDS Integers, Sequences, FiniteSets, TLC

VARIABLES
    program,      \* lex: the argument, [isNone, chars]
    peaker,       \* lex: the Peaker over the stream, [stream, pos]
    extra,        \* lex: pending characters pulled but unused
    line_number,  \* lex: the line counter
    yielded,      \* lex: the tokens yielded so far, in order
    origin,       \* history: for each yielded token, the cursor position of
                  \*          the loop iteration that yielded it
    pc,           \* lex: "idle" | "start" | "loop" | "done" | an exception
    steps,        \* history: how many times the loop body of lex has run
    input,        \* condense: the tokens as they were when condense was called
    heap,         \* condense: the Token objects (object id = index)
    it,           \* condense: how many tokens the iterator has handed out
    curr,         \* condense: object id of the accumulator (0 = unbound)
    ret,          \* condense: the list being built, of object ids
    built,        \* history: for each object id, the input positions it holds
    cpc           \* condense: "idle" | "wait" | "start" | "loop" | "done"

lexVars == <<program, peaker, extra, line_number, yielded, origin, pc, steps>>
conVars == <<input, heap, it, curr, ret, built, cpc>>
vars == <<program, peaker, extra, line_number, yielded, origin, pc, steps,
          input, heap, it, curr, ret, built, cpc>>

----------------------------------------------------------------------------
(* Bounds of the model.                                                    *)

\* An input text is made of at most MaxSegs segments.
MaxSegs == 3
\* A segment of spaces or of double quotes has at most MaxRun characters.
MaxRun == 5
\* condense is given at most MaxTokens tokens when called on its own.
MaxTokens == 3

----------------------------------------------------------------------------
(* Characters and strings.                                                 *)

QUOTE == "\""

\* str.isspace() on the characters of the model's alphabet.
isspace(char) == char \in {" ", "\n", "\t", "\r", "\f"}

\* The characters that are none of the lexer's special classes.
WordChars == {"a", "-"}

Alphabet == {" ", "\n", ":", "\t", QUOTE, "#", "(", ")"} \cup WordChars

RECURSIVE Rep(_, _)
Rep(c, n) == IF n = 0 THEN <<>> ELSE <<c>> \o Rep(c, n - 1)

\* One segment: a run of 1..MaxRun spaces or quotes, or one other character.
Segments ==
    {Rep(c, k) : c \in {" ", QUOTE}, k \in 1..MaxRun}
        \cup {<<c>> : c \in Alphabet \ {" ", QUOTE}}

RECURSIVE TextsOf(_)
TextsOf(n) ==
    IF n = 0 THEN {<<>>}
    ELSE LET prev == TextsOf(n - 1)
         IN  prev \cup {t \o s : t \in prev, s \in Segments}

\* The reserved words, and the example texts of the documentation.
S_Args == <<"A", "r", "g", "s">>
S_Yields == <<"Y", "i", "e", "l", "d", "s">>
S_Raises == <<"R", "a", "i", "s", "e", "s">>
S_Returns == <<"R", "e", "t", "u", "r", "n", "s">>
S_noqa == <<"n", "o", "q", "a">>

Examples ==
    { S_noqa,
      S_Raises \o <<" ">> \o S_Returns,
      <<"x", " ">> \o S_Yields \o <<" ", "y", " ", "z">>,
      <<"x", "\n", "y", " ", "z", "\n", "w">>,
      S_Args \o <<":", "\n">> \o Rep(" ", 4)
          \o <<"x", ":", " ", "d", "e", "s", "c", "\n">> }

Texts == TextsOf(MaxSegs) \cup Examples

Str(s) == [isNone |-> FALSE, chars |-> s]
None == [isNone |-> TRUE, chars |-> <<>>]

----------------------------------------------------------------------------
(* Token and TokenType (darglint/token.py).                                *)

PrimitiveTypes ==
    {"INDENT", "NEWLINE", "COLON", "HASH", "LPAREN", "RPAREN", "WORD", "DOCTERM"}
KeywordTypes == {"ARGUMENTS", "YIELDS", "RAISES", "RETURNS", "NOQA"}
TokenType == PrimitiveTypes \cup KeywordTypes

Token(value, token_type, line) ==
    [value |-> value, token_type |-> token_type, line_number |-> line]

----------------------------------------------------------------------------
(* The keyword table.                                                      *)

KeywordKeys == {S_Args, S_Yields, S_Raises, S_Returns, S_noqa}

\* KEYWORDS[value], for value in KEYWORDS.
KEYWORDS(value) ==
    CASE value = S_Args -> "ARGUMENTS"
      [] value = S_Yields -> "YIELDS"
      [] value = S_Raises -> "RAISES"
      [] value = S_Returns -> "RETURNS"
      [] value = S_noqa -> "NOQA"

----------------------------------------------------------------------------
(* Peaker (darglint/peaker.py): one-character lookahead over a stream.     *)

NoChar == "None"

has_next(p) == p.pos <= Len(p.stream)

peak(p) == IF has_next(p) THEN p.stream[p.pos] ELSE NoChar

----------------------------------------------------------------------------
(* The character classes of lex.py.                                        *)

_is_space(char) == char = " "
_is_newline(char) == char = "\n"
_is_colon(char) == char = ":"
_is_hash(char) == char = "#"

_is_separator(char) ==
    IF char = NoChar THEN FALSE
    ELSE isspace(char) /\ ~(_is_space(char) \/ _is_newline(char))

_is_double_quotation(char) == char = QUOTE
_is_lparen(char) == char = "("
_is_rparen(char) == char = ")"

\* A plausible slip: '-' is listed among the special characters although no
\* branch of the loop handles it.
_is_word_dash(char) ==
    ~(\/ _is_space(char)
      \/ _is_newline(char)
      \/ _is_colon(char)
      \/ _is_separator(char)
      \/ _is_double_quotation(char)
      \/ _is_hash(char)
      \/ char = "-"
      \/ char = "("
      \/ char = ")")

_is_word(char) ==
    ~(\/ _is_space(char)
      \/ _is_newline(char)
      \/ _is_colon(char)
      \/ _is_separator(char)
      \/ _is_double_quotation(char)
      \/ _is_hash(char)
      \/ _is_lparen(char)
      \/ _is_rparen(char))

----------------------------------------------------------------------------
(* Peaker.take_while, with the predicate passed by name.                   *)

Apply(test, char) ==
    CASE test = "_is_space" -> _is_space(char)
      [] test = "_is_separator" -> _is_separator(char)
      [] test = "_is_double_quotation" -> _is_double_quotation(char)
      [] test = "_is_word" -> _is_word(char)

\* The position just past the maximal run of characters satisfying test,
\* starting at the cursor.
take_while_end(test, p) ==
    CHOOSE j \in p.pos..(Len(p.stream) + 1) :
        /\ \A k \in p.pos..(j - 1) : Apply(test, p.stream[k])
        /\ (j = Len(p.stream) + 1 \/ ~Apply(test, p.stream[j]))

take_while(test, p) == SubSeq(p.stream, p.pos, take_while_end(test, p) - 1)

----------------------------------------------------------------------------
(* lex: one action per branch of the loop body.                            *)

\* The if/elif chain of the loop body: the first matching branch.
Branch(char) ==
    IF _is_space(char) THEN "space"
    ELSE IF _is_newline(char) THEN "newline"
    ELSE IF _is_colon(char) THEN "colon"
    ELSE IF _is_separator(char) THEN "separator"
    ELSE IF _is_double_quotation(char) THEN "quote"
    ELSE IF _is_hash(char) THEN "hash"
    ELSE IF _is_lparen(char) THEN "lparen"
    ELSE IF _is_rparen(char) THEN "rparen"
    ELSE "word"

\* `program or []`
ProgramOrEmpty(p) == IF p.isNone \/ Len(p.chars) = 0 THEN <<>> ELSE p.chars

\* Yield the tokens toks from the iteration that began at the cursor.
Yield(toks) ==
    /\ yielded' = yielded \o toks
    /\ origin' = origin \o [i \in 1..Len(toks) |-> peaker.pos]

AtBranch(b) == pc = "loop" /\ has_next(peaker) /\ Branch(peak(peaker)) = b

\* A plausible slip: the stream is built from `program`, not `program or []`,
\* and iterating None raises TypeError.
LexStartNoOr ==
    /\ pc = "start"
    /\ IF program.isNone
       THEN /\ pc' = "TypeError"
            /\ UNCHANGED <<peaker, extra, line_number>>
       ELSE /\ extra' = <<>>
            /\ peaker' = [stream |-> program.chars, pos |-> 1]
            /\ line_number' = 0
            /\ pc' = "loop"
    /\ UNCHANGED <<program, yielded, origin>>
    /\ UNCHANGED steps
    /\ UNCHANGED conVars

\* The body of lex up to the loop (run on the first request for a token).
LexStart ==
    /\ pc = "start"
    /\ extra' = <<>>
    /\ peaker' = [stream |-> ProgramOrEmpty(program), pos |-> 1]
    /\ line_number' = 0
    /\ pc' = "loop"
    /\ UNCHANGED <<program, yielded, origin>>
    /\ UNCHANGED steps
    /\ UNCHANGED conVars

\* peaker.next() followed by the yield of a one-character token.
NextAndYield(token_type) ==
    IF has_next(peaker)
    THEN /\ peaker' = [peaker EXCEPT !.pos = @ + 1]
         /\ Yield(<<Token(<<peak(peaker)>>, token_type, line_number)>>)
         /\ pc' = pc
    ELSE /\ pc' = "StopIteration"
         /\ UNCHANGED <<peaker, yielded, origin>>

\* A plausible slip: the group count is rounded up, so a remainder of 1..3
\* spaces gives an INDENT too.
LexSpaceRoundUp ==
    /\ AtBranch("space")
    /\ steps' = steps + 1
    /\ LET spaces == take_while("_is_space", peaker)
       IN  /\ peaker' = [peaker EXCEPT !.pos = take_while_end("_is_space", peaker)]
           /\ Yield([i \in 1..((Len(spaces) + 3) \div 4) |->
                        Token(Rep(" ", 4), "INDENT", line_number)])
    /\ UNCHANGED <<program, extra, line_number, pc>>
    /\ UNCHANGED conVars

LexSpace ==
    /\ AtBranch("space")
    /\ steps' = steps + 1
    /\ LET spaces == take_while("_is_space", peaker)
       IN  /\ peaker' = [peaker EXCEPT !.pos = take_while_end("_is_space", peaker)]
           /\ Yield([i \in 1..(Len(spaces) \div 4) |->
                        Token(Rep(" ", 4), "INDENT", line_number)])
    /\ UNCHANGED <<program, extra, line_number, pc>>
    /\ UNCHANGED conVars

\* A plausible slip: the newline moves the line counter but yields no
\* NEWLINE token.
LexNewlineSilent ==
    /\ AtBranch("newline")
    /\ steps' = steps + 1
    /\ peaker' = [peaker EXCEPT !.pos = @ + 1]
    /\ line_number' = line_number + 1
    /\ UNCHANGED <<program, extra, yielded, origin, pc>>
    /\ UNCHANGED conVars

\* A plausible slip: the line counter is incremented before the yield.
LexNewlineEarly ==
    /\ AtBranch("newline")
    /\ steps' = steps + 1
    /\ peaker' = [peaker EXCEPT !.pos = @ + 1]
    /\ Yield(<<Token(<<peak(peaker)>>, "NEWLINE", line_number + 1)>>)
    /\ line_number' = line_number + 1
    /\ UNCHANGED <<program, extra, pc>>
    /\ UNCHANGED conVars

LexNewline ==
    /\ AtBranch("newline")
    /\ steps' = steps + 1
    /\ NextAndYield("NEWLINE")
    /\ line_number' = IF has_next(peaker) THEN line_number + 1 ELSE line_number
    /\ UNCHANGED <<program, extra>>
    /\ UNCHANGED conVars

LexColon ==
    /\ AtBranch("colon")
    /\ steps' = steps + 1
    /\ NextAndYield("COLON")
    /\ UNCHANGED <<program, extra, line_number>>
    /\ UNCHANGED conVars

\* A plausible slip: the separator branch takes a run of the wrong class (of
\* spaces), which is empty at a separator, so the cursor does not move.
LexSeparatorStuck ==
    /\ AtBranch("separator")
    /\ steps' = steps + 1
    /\ peaker' = [peaker EXCEPT !.pos = take_while_end("_is_space", peaker)]
    /\ UNCHANGED <<program, extra, line_number, yielded, origin, pc>>
    /\ UNCHANGED conVars

LexSeparator ==
    /\ AtBranch("separator")
    /\ steps' = steps + 1
    /\ peaker' = [peaker EXCEPT !.pos = take_while_end("_is_separator", peaker)]
    /\ UNCHANGED <<program, extra, line_number, yielded, origin, pc>>
    /\ UNCHANGED conVars

\* A plausible slip: `>` for `>=`, so a run of exactly three quotes is held
\* as pending text.
LexQuoteStrict ==
    /\ AtBranch("quote")
    /\ steps' = steps + 1
    /\ LET value == take_while("_is_double_quotation", peaker)
       IN  /\ peaker' = [peaker EXCEPT
                            !.pos = take_while_end("_is_double_quotation", peaker)]
           /\ IF Len(value) > 3
              THEN /\ Yield([i \in 1..(Len(value) \div 3) |->
                                Token(Rep(QUOTE, 3), "DOCTERM", line_number)])
                   /\ extra' = extra
              ELSE /\ extra' = value
                   /\ UNCHANGED <<yielded, origin>>
    /\ UNCHANGED <<program, line_number, pc>>
    /\ UNCHANGED conVars

LexQuote ==
    /\ AtBranch("quote")
    /\ steps' = steps + 1
    /\ LET value == take_while("_is_double_quotation", peaker)
       IN  /\ peaker' = [peaker EXCEPT
                            !.pos = take_while_end("_is_double_quotation", peaker)]
           /\ IF Len(value) >= 3
              THEN /\ Yield([i \in 1..(Len(value) \div 3) |->
                                Token(Rep(QUOTE, 3), "DOCTERM", line_number)])
                   /\ extra' = extra
              ELSE /\ extra' = value
                   /\ UNCHANGED <<yielded, origin>>
    /\ UNCHANGED <<program, line_number, pc>>
    /\ UNCHANGED conVars

LexHash ==
    /\ AtBranch("hash")
    /\ steps' = steps + 1
    /\ NextAndYield("HASH")
    /\ UNCHANGED <<program, extra, line_number>>
    /\ UNCHANGED conVars

LexLparen ==
    /\ AtBranch("lparen")
    /\ steps' = steps + 1
    /\ NextAndYield("LPAREN")
    /\ UNCHANGED <<program, extra, line_number>>
    /\ UNCHANGED conVars

LexRparen ==
    /\ AtBranch("rparen")
    /\ steps' = steps + 1
    /\ NextAndYield("RPAREN")
    /\ UNCHANGED <<program, extra, line_number>>
    /\ UNCHANGED conVars

\* A plausible slip: the pending prefix is used but not cleared.
LexWordKeepsExtra ==
    /\ AtBranch("word")
    /\ steps' = steps + 1
    /\ LET run == take_while("_is_word", peaker)
           value == IF extra # <<>> THEN extra \o run ELSE run
       IN  /\ peaker' = [peaker EXCEPT !.pos = take_while_end("_is_word", peaker)]
           /\ extra' = extra
           /\ IF Len(value) > 0
              THEN /\ Yield(<<Token(value, "WORD", line_number)>>)
                   /\ pc' = pc
              ELSE /\ pc' = "AssertionError"
                   /\ UNCHANGED <<yielded, origin>>
    /\ UNCHANGED <<program, line_number>>
    /\ UNCHANGED conVars

\* A plausible slip: the keyword promotion of condense is done in lex.
LexWordPromote ==
    /\ AtBranch("word")
    /\ steps' = steps + 1
    /\ LET run == take_while("_is_word", peaker)
           value == IF extra # <<>> THEN extra \o run ELSE run
       IN  /\ peaker' = [peaker EXCEPT !.pos = take_while_end("_is_word", peaker)]
           /\ extra' = <<>>
           /\ IF Len(value) > 0
              THEN /\ Yield(<<Token(value,
                                    IF value \in KeywordKeys
                                    THEN KEYWORDS(value) ELSE "WORD",
                                    line_number)>>)
                   /\ pc' = pc
              ELSE /\ pc' = "AssertionError"
                   /\ UNCHANGED <<yielded, origin>>
    /\ UNCHANGED <<program, line_number>>
    /\ UNCHANGED conVars

LexWord ==
    /\ AtBranch("word")
    /\ steps' = steps + 1
    /\ LET run == take_while("_is_word", peaker)
           value == IF extra # <<>> THEN extra \o run ELSE run
       IN  /\ peaker' = [peaker EXCEPT !.pos = take_while_end("_is_word", peaker)]
           /\ extra' = <<>>
           /\ IF Len(value) > 0
              THEN /\ Yield(<<Token(value, "WORD", line_number)>>)
                   /\ pc' = pc
              ELSE /\ pc' = "AssertionError"
                   /\ UNCHANGED <<yielded, origin>>
    /\ UNCHANGED <<program, line_number>>
    /\ UNCHANGED conVars

\* The loop test fails: the generator is exhausted.
LexDone ==
    /\ pc = "loop"
    /\ ~has_next(peaker)
    /\ pc' = "done"
    /\ UNCHANGED <<program, peaker, extra, line_number, yielded, origin>>
    /\ UNCHANGED steps
    /\ UNCHANGED conVars

LexStep ==
    \/ LexStart
    \/ LexSpace
    \/ LexNewline
    \/ LexColon
    \/ LexSeparator
    \/ LexQuote
    \/ LexHash
    \/ LexLparen
    \/ LexRparen
    \/ LexWord
    \/ LexDone

LexInit ==
    /\ program \in {None} \cup {Str(t) : t \in Texts}
    /\ peaker = [stream |-> <<>>, pos |-> 1]
    /\ extra = <<>>
    /\ line_number = 0
    /\ yielded = <<>>
    /\ origin = <<>>
    /\ pc = "start"
    /\ steps = 0

ConIdle ==
    /\ input = <<>>
    /\ heap = <<>>
    /\ it = 0
    /\ curr = 0
    /\ ret = <<>>
    /\ built = <<>>

\* lex on its own: lex(program) run to exhaustion.
InitLex == LexInit /\ ConIdle /\ cpc = "idle"
NextLex == LexStep
SpecLex == InitLex /\ [][NextLex]_vars

\* The consumer drains the generator: lex always takes its next step.
SpecLexFair == SpecLex /\ WF_vars(NextLex)

----------------------------------------------------------------------------
(* condense.                                                               *)

\* A plausible slip: the fragments are joined with no space between them.
SpaceFormatNoSpace(value) == value

\* ' {}'.format(value)
SpaceFormat(value) == <<" ">> \o value

\* The token the loop is looking at: the next one the iterator hands out.
token == heap[it + 1]

InLoop == cpc = "loop" /\ it < Len(input)

\* ret = list(); curr = next(tokens), or return ret when there is none;
\* the promotion of the first token.
CondenseStart ==
    /\ cpc = "start"
    /\ ret' = <<>>
    /\ IF Len(input) = 0
       THEN /\ cpc' = "done"
            /\ UNCHANGED <<heap, it, curr>>
       ELSE /\ curr' = 1
            /\ it' = 1
            /\ heap' = IF heap[1].value \in KeywordKeys
                       THEN [heap EXCEPT ![1].token_type = KEYWORDS(heap[1].value)]
                       ELSE heap
            /\ cpc' = "loop"
    /\ UNCHANGED <<input, built>>
    /\ UNCHANGED lexVars

\* A plausible slip: the new Token is given the kind of the token it copies.
CondenseKeywordKeepsKind ==
    /\ InLoop
    /\ token.token_type = "WORD" /\ token.value \in KeywordKeys
    /\ ret' = Append(ret, curr)
    /\ heap' = Append(heap, Token(token.value, token.token_type,
                                  token.line_number))
    /\ built' = Append(built, <<it + 1>>)
    /\ curr' = Len(heap) + 1
    /\ it' = it + 1
    /\ UNCHANGED <<input, cpc>>
    /\ UNCHANGED lexVars

\* A WORD that is a keyword: flush, and a new Token becomes the accumulator.
CondenseKeyword ==
    /\ InLoop
    /\ token.token_type = "WORD" /\ token.value \in KeywordKeys
    /\ ret' = Append(ret, curr)
    /\ heap' = Append(heap, Token(token.value, KEYWORDS(token.value),
                                  token.line_number))
    /\ built' = Append(built, <<it + 1>>)
    /\ curr' = Len(heap) + 1
    /\ it' = it + 1
    /\ UNCHANGED <<input, cpc>>
    /\ UNCHANGED lexVars

\* A plausible slip: the merge branch is tried before the keyword branch, so a
\* keyword after a WORD is merged like any other word.
CondenseMergeFirst ==
    /\ InLoop
    /\ token.token_type = "WORD"
    /\ heap[curr].token_type = "WORD"
    /\ heap' = [heap EXCEPT ![curr].value = @ \o SpaceFormat(token.value)]
    /\ built' = [built EXCEPT ![curr] = @ \o <<it + 1>>]
    /\ it' = it + 1
    /\ UNCHANGED <<input, curr, ret, cpc>>
    /\ UNCHANGED lexVars

\* A WORD that is no keyword, after a WORD: merged into the accumulator.
CondenseMerge ==
    /\ InLoop
    /\ ~(token.token_type = "WORD" /\ token.value \in KeywordKeys)
    /\ token.token_type = "WORD"
    /\ heap[curr].token_type = "WORD"
    /\ heap' = [heap EXCEPT ![curr].value = @ \o SpaceFormat(token.value)]
    /\ built' = [built EXCEPT ![curr] = @ \o <<it + 1>>]
    /\ it' = it + 1
    /\ UNCHANGED <<input, curr, ret, cpc>>
    /\ UNCHANGED lexVars

\* A WORD that is no keyword, after a token that is no WORD: flush.
CondenseWord ==
    /\ InLoop
    /\ ~(token.token_type = "WORD" /\ token.value \in KeywordKeys)
    /\ token.token_type = "WORD"
    /\ heap[curr].token_type # "WORD"
    /\ ret' = Append(ret, curr)
    /\ curr' = it + 1
    /\ it' = it + 1
    /\ UNCHANGED <<input, heap, built, cpc>>
    /\ UNCHANGED lexVars

\* Any other token: flush.
CondenseOther ==
    /\ InLoop
    /\ ~(token.token_type = "WORD" /\ token.value \in KeywordKeys)
    /\ token.token_type # "WORD"
    /\ ret' = Append(ret, curr)
    /\ curr' = it + 1
    /\ it' = it + 1
    /\ UNCHANGED <<input, heap, built, cpc>>
    /\ UNCHANGED lexVars

\* A plausible slip: the last accumulator is never flushed.
CondenseFinishNoFlush ==
    /\ cpc = "loop"
    /\ it = Len(input)
    /\ cpc' = "done"
    /\ UNCHANGED <<input, heap, it, curr, ret, built>>
    /\ UNCHANGED lexVars

\* The iterator is exhausted: ret.append(curr); return ret.
CondenseFinish ==
    /\ cpc = "loop"
    /\ it = Len(input)
    /\ ret' = Append(ret, curr)
    /\ cpc' = "done"
    /\ UNCHANGED <<input, heap, it, curr, built>>
    /\ UNCHANGED lexVars

CondenseStep ==
    \/ CondenseStart
    \/ CondenseKeyword
    \/ CondenseMerge
    \/ CondenseWord
    \/ CondenseOther
    \/ CondenseFinish

\* condense is called with the token objects toks.
Call(toks) ==
    /\ input = toks
    /\ heap = toks
    /\ built = [i \in 1..Len(toks) |-> <<i>>]
    /\ it = 0
    /\ curr = 0
    /\ ret = <<>>
    /\ cpc = "start"

\* The tokens condense is given when it is called on its own.
Lines == {0, 1}

TokenShapes ==
    {Token(v, "WORD", l) :
        v \in KeywordKeys \cup {<<"x">>, <<"y">>}, l \in Lines}
    \cup {Token(<<":">>, "COLON", l) : l \in Lines}
    \cup {Token(<<"\n">>, "NEWLINE", l) : l \in Lines}
    \cup {Token(S_Args, "COLON", l) : l \in Lines}

RECURSIVE TokenSeqs(_)
TokenSeqs(n) ==
    IF n = 0 THEN {<<>>}
    ELSE LET prev == TokenSeqs(n - 1)
         IN  prev \cup {Append(t, x) : t \in prev, x \in TokenShapes}

LexIdle ==
    /\ program = None
    /\ peaker = [stream |-> <<>>, pos |-> 1]
    /\ extra = <<>>
    /\ line_number = 0
    /\ yielded = <<>>
    /\ origin = <<>>
    /\ pc = "idle"
    /\ steps = 0

\* condense on its own: condense(iter(toks)) for any token sequence toks.
InitCondense == LexIdle /\ \E toks \in TokenSeqs(MaxTokens) : Call(toks)
NextCondense == CondenseStep
SpecCondense == InitCondense /\ [][NextCondense]_vars

\* The pipeline condense(lex(program)).  condense drives the generator, which
\* reads nothing condense writes, so the tokens are those of lex run to
\* exhaustion.
PipeFeed ==
    /\ pc = "done"
    /\ cpc = "wait"
    /\ input' = yielded
    /\ heap' = yielded
    /\ built' = [i \in 1..Len(yielded) |-> <<i>>]
    /\ cpc' = "start"
    /\ UNCHANGED <<it, curr, ret>>
    /\ UNCHANGED lexVars

InitPipe == LexInit /\ ConIdle /\ cpc = "wait"
NextPipe == LexStep \/ PipeFeed \/ CondenseStep
SpecPipe == InitPipe /\ [][NextPipe]_vars

----------------------------------------------------------------------------
(* Vocabulary of the properties of lex.                                    *)

stream == peaker.stream

\* s..e is a maximal run of the character c in the stream.
IsRunOf(c, s, e) ==
    /\ 1 <= s /\ s <= e /\ e <= Len(stream)
    /\ \A k \in s..e : stream[k] = c
    /\ (s = 1 \/ stream[s - 1] # c)
    /\ (e = Len(stream) \/ stream[e + 1] # c)

Positions == 1..Len(stream)

\* The cursor has passed position e.
Consumed(e) == pc \in {"loop", "done"} /\ peaker.pos > e

\* The yielded tokens that came from the loop iteration begun at position s.
TokensAt(s) == {i \in 1..Len(yielded) : origin[i] = s}

NewlinesBefore(s) == Cardinality({j \in 1..(s - 1) : stream[j] = "\n"})

TokensOfType(t) == {i \in 1..Len(yielded) : yielded[i].token_type = t}

LexFailed == pc \in {"AssertionError", "StopIteration", "TypeError"}

\* C1: every maximal run of k double quotes with k mod 3 # 0 has its k mod 3
\* leftover quotes at the head of the value of the first WORD token yielded
\* after the run, whenever such a WORD token exists.
C1_LeftoverPrependedToNextWord ==
    pc = "done" =>
        \A s \in Positions : \A e \in Positions :
            (IsRunOf(QUOTE, s, e) /\ (e - s + 1) % 3 # 0) =>
                LET left == (e - s + 1) % 3
                    later == {i \in TokensOfType("WORD") : origin[i] > e}
                IN  later # {} =>
                        LET i == CHOOSE x \in later : \A y \in later : x <= y
                            v == yielded[i].value
                        IN  /\ Len(v) > left
                            /\ \A j \in 1..left : v[j] = QUOTE

\* C4: lex yields as many NEWLINE tokens as the text has newline characters,
\* and the line of every token is the number of NEWLINE tokens yielded
\* strictly before it.
C4_LineAccounting ==
    /\ pc = "done" =>
          Cardinality(TokensOfType("NEWLINE"))
              = Cardinality({j \in Positions : stream[j] = "\n"})
    /\ \A i \in 1..Len(yielded) :
          yielded[i].line_number
              = Cardinality({j \in TokensOfType("NEWLINE") : j < i})

C4_Witness ==
    /\ pc = "done"
    /\ Cardinality(TokensOfType("NEWLINE")) = 2
    /\ \E i \in 1..Len(yielded) :
          yielded[i].token_type # "NEWLINE" /\ yielded[i].line_number = 2

\* C6: a maximal run of k double quotes makes lex yield exactly k div 3
\* DOCTERM tokens, each of value three double quotes and on the line current
\* at the run; a run of 1 or 2 quotes yields none.
C6_DoctermPerThreeQuotes ==
    \A s \in Positions : \A e \in Positions :
        (IsRunOf(QUOTE, s, e) /\ Consumed(e)) =>
            LET docs == TokensAt(s) \cap TokensOfType("DOCTERM")
            IN  /\ Cardinality(docs) = (e - s + 1) \div 3
                /\ \A i \in docs :
                      /\ yielded[i].value = <<QUOTE, QUOTE, QUOTE>>
                      /\ yielded[i].line_number = NewlinesBefore(s)

C6_Witness ==
    /\ pc = "done"
    /\ \E s \in Positions :
          /\ IsRunOf(QUOTE, s, s + 6)
          /\ NewlinesBefore(s) = 1
          /\ Cardinality(TokensAt(s) \cap TokensOfType("DOCTERM")) = 2

\* C7: a maximal run of k spaces makes lex yield exactly k div 4 INDENT
\* tokens (four spaces each, on the current line) and nothing else, whatever
\* surrounds the run.
C7_IndentPerFourSpaces ==
    \A s \in Positions : \A e \in Positions :
        (IsRunOf(" ", s, e) /\ Consumed(e)) =>
            /\ Cardinality(TokensAt(s)) = (e - s + 1) \div 4
            /\ \A i \in TokensAt(s) :
                  yielded[i] = Token(<<" ", " ", " ", " ">>, "INDENT",
                                     NewlinesBefore(s))

C7_Witness ==
    /\ pc = "done"
    /\ \E s \in Positions :
          /\ IsRunOf(" ", s, s + 4)
          /\ s > 1 /\ stream[s - 1] \in WordChars
          /\ s + 4 < Len(stream)
          /\ Cardinality(TokensAt(s)) = 1

\* C8: lex never fails (no empty word run, no next() on an exhausted
\* cursor) and every token it yields has a value of at least one character.
C8_LexNeverFails ==
    /\ ~LexFailed
    /\ \A i \in 1..Len(yielded) : Len(yielded[i].value) >= 1

C8_Witness ==
    /\ pc = "done"
    /\ \E i \in TokensOfType("WORD") : yielded[i].value = <<"-">>
    /\ TokensOfType("COLON") # {}
    /\ stream[Len(stream)] = "\n"

----------------------------------------------------------------------------
(* Vocabulary of the properties of condense.                               *)

\* The list condense returns, as token values.
Out == [j \in 1..Len(ret) |-> heap[ret[j]]]

\* The input positions the j-th returned token was built from.
OutBuilt(j) == built[ret[j]]

Returned == cpc = "done"

\* A WORD token whose value is no keyword.
IsPlainWord(t) == t.token_type = "WORD" /\ t.value \notin KeywordKeys
IsKeywordWord(t) == t.token_type = "WORD" /\ t.value \in KeywordKeys

\* s..e is a maximal block of plain WORD tokens of the input.
IsWordBlock(s, e) ==
    /\ 1 <= s /\ s <= e /\ e <= Len(input)
    /\ \A k \in s..e : IsPlainWord(input[k])
    /\ (s = 1 \/ ~IsPlainWord(input[s - 1]))
    /\ (e = Len(input) \/ ~IsPlainWord(input[e + 1]))

\* The values of a sequence of tokens joined by single spaces.
RECURSIVE JoinValues(_)
JoinValues(toks) ==
    IF Len(toks) = 0 THEN <<>>
    ELSE IF Len(toks) = 1 THEN toks[1].value
    ELSE toks[1].value \o <<" ">> \o JoinValues(Tail(toks))

RECURSIVE Flatten(_)
Flatten(seqs) ==
    IF Len(seqs) = 0 THEN <<>> ELSE Head(seqs) \o Flatten(Tail(seqs))

Interval(s, e) == [k \in 1..(e - s + 1) |-> s + k - 1]

Touches(j, s, e) == \E k \in 1..Len(OutBuilt(j)) : OutBuilt(j)[k] \in s..e

\* C2: every maximal block of m >= 1 plain WORD tokens gives exactly one
\* returned token: a WORD whose value is the m values joined by single spaces
\* and whose line is that of the first token of the block.
C2_WordBlockMerged ==
    Returned =>
        \A s \in 1..Len(input) : \A e \in 1..Len(input) :
            IsWordBlock(s, e) =>
                /\ Cardinality({j \in 1..Len(ret) : Touches(j, s, e)}) = 1
                /\ \E j \in 1..Len(ret) :
                      /\ OutBuilt(j) = Interval(s, e)
                      /\ Out[j] = Token(JoinValues(SubSeq(input, s, e)), "WORD",
                                        input[s].line_number)

C2_Witness ==
    /\ Returned
    /\ Len(input) = 3
    /\ IsWordBlock(2, 3)
    /\ input[2].value # input[3].value
    /\ input[2].line_number # input[3].line_number
    /\ Len(ret) = 2
    /\ Len(Out[2].value) = 3

\* C3: every input WORD whose own value is a keyword is returned as a token
\* of its own, with the mapped kind and its value unchanged, merged with
\* nothing; and a returned token has a keyword kind only if it was built from
\* one input token whose value is a keyword.
C3_KeywordsStandAlone ==
    Returned =>
        /\ \A i \in 1..Len(input) :
              IsKeywordWord(input[i]) =>
                  /\ \A j \in 1..Len(ret) :
                        Touches(j, i, i) => OutBuilt(j) = <<i>>
                  /\ \E j \in 1..Len(ret) :
                        /\ OutBuilt(j) = <<i>>
                        /\ Out[j] = Token(input[i].value,
                                          KEYWORDS(input[i].value),
                                          input[i].line_number)
        /\ \A j \in 1..Len(ret) :
              Out[j].token_type \in KeywordTypes =>
                  /\ Len(OutBuilt(j)) = 1
                  /\ Out[j].value \in KeywordKeys

C3_Witness ==
    /\ Returned
    /\ Len(input) = 3
    /\ IsPlainWord(input[1])
    /\ IsKeywordWord(input[2])
    /\ IsKeywordWord(input[3])
    /\ input[2].value # input[3].value
    /\ Len(ret) = 3
    /\ Out[2].token_type \in KeywordTypes
    /\ Out[3].token_type \in KeywordTypes

\* C5: the first token's kind is replaced only if its kind is WORD and its
\* value is a keyword; a first token of any other kind keeps its kind.
C5_FirstPromotedOnlyIfWord ==
    (cpc \in {"loop", "done"} /\ Len(input) >= 1) =>
        (heap[1].token_type # input[1].token_type =>
            IsKeywordWord(input[1]))

\* C10: condense neither drops, duplicates nor reorders: the input positions
\* the returned tokens were built from, in order, are 1..n, the values are
\* all kept in order, and every input token that is no WORD is returned once,
\* as it was (but for the kind of a promoted first token).
C10_NothingLostOrReordered ==
    (Returned /\ Len(input) >= 1) =>
        /\ Flatten([j \in 1..Len(ret) |-> OutBuilt(j)])
              = [k \in 1..Len(input) |-> k]
        /\ JoinValues(Out) = JoinValues(input)
        /\ \A i \in 1..Len(input) :
              input[i].token_type # "WORD" =>
                  /\ Cardinality({j \in 1..Len(ret) : Touches(j, i, i)}) = 1
                  /\ \E j \in 1..Len(ret) :
                        /\ OutBuilt(j) = <<i>>
                        /\ Out[j].value = input[i].value
                        /\ Out[j].line_number = input[i].line_number
                        /\ \/ Out[j].token_type = input[i].token_type
                           \/ /\ i = 1
                              /\ input[1].value \in KeywordKeys
                              /\ Out[j].token_type = KEYWORDS(input[1].value)

C10_Witness ==
    /\ Returned
    /\ Len(input) = 3
    /\ input[1].token_type = "NEWLINE"
    /\ IsPlainWord(input[2])
    /\ IsPlainWord(input[3])
    /\ Len(ret) = 2

\* C9: lex of the empty text and of None yields no token (and does not
\* fail), and condense of an empty token sequence returns the empty list.
C9_EmptyInEmptyOut ==
    /\ (program.isNone \/ program.chars = <<>>) =>
          /\ ~LexFailed
          /\ yielded = <<>>
    /\ (Returned /\ input = <<>>) => ret = <<>>

C9_Witness ==
    /\ program.isNone
    /\ pc = "done"
    /\ yielded = <<>>
    /\ Returned
    /\ ret = <<>>

\* C11: running condense leaves every token object of its input with the
\* value, kind and line it had when condense was called.
C11_InputTokensUnchanged ==
    \A i \in 1..Len(input) : heap[i] = input[i]

\* The text 'Args:', newline, four spaces, 'x: desc', newline.
ArgsText ==
    S_Args \o <<":", "\n", " ", " ", " ", " ", "x", ":", " ">>
        \o <<"d", "e", "s", "c", "\n">>

\* The kinds and values of the yielded tokens, in order.
KindsAndValues == [i \in 1..Len(yielded) |->
                      <<yielded[i].token_type, yielded[i].value>>]

ArgsTokens(first) ==
    << <<first, S_Args>>, <<"COLON", <<":">>>>, <<"NEWLINE", <<"\n">>>>,
       <<"INDENT", <<" ", " ", " ", " ">>>>, <<"WORD", <<"x">>>>,
       <<"COLON", <<":">>>>, <<"WORD", <<"d", "e", "s", "c">>>>,
       <<"NEWLINE", <<"\n">>>> >>

LexedArgsText == program = Str(ArgsText) /\ pc = "done"

\* C12 (as stated): lex of that text yields ARGUMENTS("Args"), COLON,
\* NEWLINE, INDENT, WORD("x"), COLON, WORD("desc"), NEWLINE.
C12_LexYieldsArguments ==
    LexedArgsText => KindsAndValues = ArgsTokens("ARGUMENTS")

\* C12 (amended): lex of that text yields WORD("Args"), COLON, NEWLINE,
\* INDENT, WORD("x"), COLON, WORD("desc"), NEWLINE: the first token has kind
\* WORD.
C12_LexYieldsWord ==
    LexedArgsText => KindsAndValues = ArgsTokens("WORD")

C12_Witness ==
    /\ LexedArgsText
    /\ Len(yielded) = 8
    /\ yielded[1].value = S_Args

\* C13: every token lex yields has one of the eight primitive kinds, never a
\* keyword kind: a reserved word leaves lex as a WORD, and only condense
\* gives it its keyword kind.
C13_LexYieldsPrimitiveKinds ==
    \A i \in 1..Len(yielded) :
        /\ yielded[i].token_type \in PrimitiveTypes
        /\ yielded[i].value \in KeywordKeys => yielded[i].token_type = "WORD"

C13_Witness ==
    /\ program = Str(S_noqa)
    /\ yielded = <<Token(S_noqa, "WORD", 0)>>
    /\ cpc = "done"
    /\ Len(ret) = 1
    /\ heap[ret[1]] = Token(S_noqa, "NOQA", 0)

\* C14: every run of the loop body moves the cursor forward by at least one
\* character (also the runs that yield nothing), so lex ends, with the cursor
\* exhausted, after at most as many runs of the loop body as the text has
\* characters.
C14_LexAdvancesAndTerminates ==
    /\ [][(pc = "loop" /\ has_next(peaker)) => peaker'.pos > peaker.pos]_vars
    /\ [](steps <= Len(ProgramOrEmpty(program)))
    /\ [](pc = "done" => ~has_next(peaker))
    /\ <>(pc = "done")

C14_Witness ==
    /\ pc = "done"
    /\ stream = <<" ", "\t", QUOTE>>
    /\ steps = 3
    /\ yielded = <<>>

\* C15: the list condense returns never has two adjacent tokens that are
\* both of kind WORD.
C15_NoAdjacentWords ==
    Returned =>
        \A j \in 1..(Len(ret) - 1) :
            ~(Out[j].token_type = "WORD" /\ Out[j + 1].token_type = "WORD")

C15_Witness ==
    /\ Returned
    /\ Len(input) = 3
    /\ \A i \in 1..3 : IsPlainWord(input[i])
    /\ Len(ret) = 1
    /\ Out[1].token_type = "WORD"

\* C16: in condense(lex(text)), the line of every returned token is the
\* number of NEWLINE tokens before it in the returned list, and the WORD
\* tokens merged into one returned token all come from one line.
C16_PipelineLineAccounting ==
    (Returned /\ pc = "done") =>
        \A j \in 1..Len(ret) :
            /\ Out[j].line_number
                  = Cardinality({k \in 1..(j - 1) : Out[k].token_type = "NEWLINE"})
            /\ \A k \in 1..Len(OutBuilt(j)) :
                  yielded[OutBuilt(j)[k]].line_number = Out[j].line_number

C16_Witness ==
    /\ Returned
    /\ pc = "done"
    /\ \E j \in 1..Len(ret) :
          /\ Len(OutBuilt(j)) = 2
          /\ Out[j].line_number = 1
          /\ j < Len(ret)
          /\ Out[Len(ret)].line_number = 2

\* A WORD value of lex: at most two double quotes, then one or more
\* characters that are none of the special ones.
IsLexWordValue(v) ==
    \E q \in 0..2 :
        /\ Len(v) > q
        /\ \A k \in 1..q : v[k] = QUOTE
        /\ \A k \in (q + 1)..Len(v) : _is_word(v[k])

\* C17: the pending prefix is always at most two double quotes, it is empty
\* after a step that yields a WORD, and every WORD lex yields has a value of
\* at most two leading double quotes followed by at least one ordinary
\* character.
C17_PendingPrefixAndWordShape ==
    /\ [](Len(extra) <= 2 /\ \A k \in 1..Len(extra) : extra[k] = QUOTE)
    /\ [](\A i \in TokensOfType("WORD") : IsLexWordValue(yielded[i].value))
    /\ [][Cardinality(TokensOfType("WORD"))' > Cardinality(TokensOfType("WORD"))
            => extra' = <<>>]_vars

C17_Witness ==
    /\ pc = "done"
    /\ stream = <<QUOTE, QUOTE, "a">>
    /\ yielded = <<Token(<<QUOTE, QUOTE, "a">>, "WORD", 0)>>
    /\ extra = <<>>

====
